---- MODULE Spec2Model ----
(***************************************************************************)
(* Model of the HP lattice protein-folding script (src/main.py): the       *)
(* construction of the QUBO dictionary Q from a residue sequence, and the  *)
(* decoding of a sample (variable name -> 0/1) into bead positions.        *)
(*                                                                         *)
(* Python strings are strings; the formatting of a variable name           *)
(* (f"x_{i}_{j}_{k}") and its parsing (split('_') and int) are computed    *)
(* character by character, not assumed.                                    *)
(* Python indices are 0-based; TLA+ sequences are 1-based.                 *)
(***************************************************************************)
EXTENDS Integers, Sequences, FiniteSets, TLC

VARIABLES sequence, N, L, variables, Q, log, pc, contribs, pending, sample, positions

vars == <<sequence, N, L, variables, Q, log, pc, contribs, pending, sample, positions>>

(***************************************************************************)
(* Bounds of the model.                                                    *)
(***************************************************************************)
\* longest residue sequence the builder is run on
MaxN == 4
\* longest residue sequence whose QUBO is handed to the sampler
MaxNSample == 2
\* longest residue sequence whose sample is decoded
MaxNDecode == 2

\* residue characters: 'H', 'P' and one character outside {H,P}
Residues == {"H", "P", "X"}

\* the sequence of the script, main.py line 38
DefaultSequence == "PPHPPHP"

\* the strings of n residue characters
RECURSIVE SequencesOfLen(_)
SequencesOfLen(n) ==
    IF n = 0 THEN {""}
    ELSE {s \o r : s \in SequencesOfLen(n - 1), r \in Residues}

Sequences(maxN) == UNION {SequencesOfLen(n) : n \in 2..maxN}

(***************************************************************************)
(* Python helpers: range, abs, str(int), int(str), str.split.              *)
(***************************************************************************)
Range(n) == 0..(n - 1)

\* s[p], p counted from 0
CharAt(s, p) == SubSeq(s, p + 1, p + 1)

Abs(x) == IF x < 0 THEN -x ELSE x

DigitChars == <<"0", "1", "2", "3", "4", "5", "6", "7", "8", "9">>

RECURSIVE IntToStr(_)
IntToStr(n) ==
    IF n < 10 THEN DigitChars[n + 1]
    ELSE IntToStr(n \div 10) \o DigitChars[(n % 10) + 1]

DigitValue(c) == CHOOSE d \in 0..9 : DigitChars[d + 1] = c

RECURSIVE StrToInt(_)
StrToInt(s) ==
    IF Len(s) = 1 THEN DigitValue(s)
    ELSE 10 * StrToInt(SubSeq(s, 1, Len(s) - 1)) + DigitValue(CharAt(s, Len(s) - 1))

\* s.split(sep): the pieces of s between the occurrences of sep
RECURSIVE SplitFrom(_, _, _, _)
SplitFrom(s, sep, p, cur) ==
    IF p >= Len(s) THEN <<cur>>
    ELSE IF CharAt(s, p) = sep THEN <<cur>> \o SplitFrom(s, sep, p + 1, "")
    ELSE SplitFrom(s, sep, p + 1, cur \o CharAt(s, p))

Split(s, sep) == SplitFrom(s, sep, 0, "")

(***************************************************************************)
(* Variables of the QUBO: one per (bead, row, column) on the checkerboard. *)
(***************************************************************************)
LatticeSize(n) == (n \div 2) + 1

VarName(i, j, k) == "x_" \o IntToStr(i) \o "_" \o IntToStr(j) \o "_" \o IntToStr(k)

Variables(n, l) ==
    [t \in {u \in Range(n) \X Range(l) \X Range(l) : (u[2] + u[3]) % 2 = u[1] % 2}
        |-> VarName(t[1], t[2], t[3])]

\* a fault: every residue that is not 'P' taken as hydrophobic
interactionNotP(h1, h2) == IF h1 # "P" /\ h2 # "P" THEN -1 ELSE 0

interaction(h1, h2) == IF h1 = "H" /\ h2 = "H" THEN -1 ELSE 0

(***************************************************************************)
(* Nested for-loops over ranges: the tuples of indices in the order the    *)
(* loops visit them (the last index runs fastest).                         *)
(***************************************************************************)
RECURSIVE Stride(_, _)
Stride(dims, p) == IF p >= Len(dims) THEN 1 ELSE dims[p + 1] * Stride(dims, p + 1)

RECURSIVE Product(_)
Product(dims) == IF Len(dims) = 0 THEN 1 ELSE dims[1] * Product(Tail(dims))

LoopNest(dims) ==
    [idx \in 1..Product(dims) |->
        [p \in 1..Len(dims) |-> ((idx - 1) \div Stride(dims, p)) % dims[p]]]

Contribution(t, a, b, c) == [term |-> t, key |-> <<a, b>>, val |-> c]

(***************************************************************************)
(* The four terms, each as the sequence of contributions (key, coefficient)*)
(* its loops make, in the order the loops make them.                       *)
(***************************************************************************)
\* a fault: range(f + 1, N), beads adjacent in the chain included
Term1Adjacent(seq) ==
    LET n == Len(seq)
        l == LatticeSize(n)
        vs == Variables(n, l)
        Visits(t) ==
            /\ t[2] >= t[1] + 1
            /\ interaction(CharAt(seq, t[1]), CharAt(seq, t[2])) # 0
            /\ Abs(t[3] - t[5]) + Abs(t[4] - t[6]) = 1
            /\ (t[3] + t[4]) % 2 = t[1] % 2
            /\ (t[5] + t[6]) % 2 = t[2] % 2
        Make(t) == Contribution(1, vs[<<t[1], t[3], t[4]>>], vs[<<t[2], t[5], t[6]>>],
                                interaction(CharAt(seq, t[1]), CharAt(seq, t[2])))
    IN  LET visited == SelectSeq(LoopNest(<<n, n, l, l, l, l>>), Visits)
        IN  [x \in 1..Len(visited) |-> Make(visited[x])]

\* main.py 55-68: HP energy terms
Term1(seq) ==
    LET n == Len(seq)
        l == LatticeSize(n)
        vs == Variables(n, l)
        \* t = <<f, fp, j, k, jp, kp>>
        Visits(t) ==
            /\ t[2] >= t[1] + 2
            /\ interaction(CharAt(seq, t[1]), CharAt(seq, t[2])) # 0
            /\ Abs(t[3] - t[5]) + Abs(t[4] - t[6]) = 1
            /\ (t[3] + t[4]) % 2 = t[1] % 2
            /\ (t[5] + t[6]) % 2 = t[2] % 2
        Make(t) == Contribution(1, vs[<<t[1], t[3], t[4]>>], vs[<<t[2], t[5], t[6]>>],
                                interaction(CharAt(seq, t[1]), CharAt(seq, t[2])))
    IN  LET visited == SelectSeq(LoopNest(<<n, n, l, l, l, l>>), Visits)
        IN  [x \in 1..Len(visited) |-> Make(visited[x])]

\* a fault: only the coordinates after (j, k) paired with it
Term2OneDirection(seq) ==
    LET n == Len(seq)
        l == LatticeSize(n)
        vs == Variables(n, l)
        Visits(t) ==
            /\ (t[2] + t[3]) % 2 = t[1] % 2
            /\ (t[4] + t[5]) % 2 = t[1] % 2
            /\ (t[4] > t[2] \/ (t[4] = t[2] /\ t[5] > t[3]))
        Make(t) == Contribution(2, vs[<<t[1], t[2], t[3]>>], vs[<<t[1], t[4], t[5]>>], 2)
    IN  LET visited == SelectSeq(LoopNest(<<n, l, l, l, l>>), Visits)
        IN  [x \in 1..Len(visited) |-> Make(visited[x])]

\* main.py 70-77: each bead at one location
Term2(seq) ==
    LET n == Len(seq)
        l == LatticeSize(n)
        vs == Variables(n, l)
        \* t = <<i, j, k, jp, kp>>
        Visits(t) ==
            /\ (t[2] + t[3]) % 2 = t[1] % 2
            /\ (t[4] + t[5]) % 2 = t[1] % 2
            /\ <<t[4], t[5]>> # <<t[2], t[3]>>
        Make(t) == Contribution(2, vs[<<t[1], t[2], t[3]>>], vs[<<t[1], t[4], t[5]>>], 2)
    IN  LET visited == SelectSeq(LoopNest(<<n, l, l, l, l>>), Visits)
        IN  [x \in 1..Len(visited) |-> Make(visited[x])]

\* a fault: b2 over range(len(beads)) but b1, both orders of a pair
Term3BothOrders(seq) ==
    LET n == Len(seq)
        l == LatticeSize(n)
        vs == Variables(n, l)
        Visits(t) ==
            /\ <<t[3], t[1], t[2]>> \in DOMAIN vs
            /\ <<t[4], t[1], t[2]>> \in DOMAIN vs
            /\ t[4] # t[3]
        Make(t) == Contribution(3, vs[<<t[3], t[1], t[2]>>], vs[<<t[4], t[1], t[2]>>], 10)
    IN  LET visited == SelectSeq(LoopNest(<<l, l, n, n>>), Visits)
        IN  [x \in 1..Len(visited) |-> Make(visited[x])]

\* main.py 79-86: self-avoidance; beads[b1], beads[b2] with b1 < b2 are the
\* variables of two beads i1 < i2 over the coordinate (j, k)
Term3(seq) ==
    LET n == Len(seq)
        l == LatticeSize(n)
        vs == Variables(n, l)
        \* t = <<j, k, i1, i2>>
        Visits(t) ==
            /\ <<t[3], t[1], t[2]>> \in DOMAIN vs
            /\ <<t[4], t[1], t[2]>> \in DOMAIN vs
            /\ t[4] >= t[3] + 1
        Make(t) == Contribution(3, vs[<<t[3], t[1], t[2]>>], vs[<<t[4], t[1], t[2]>>], 10)
    IN  LET visited == SelectSeq(LoopNest(<<l, l, n, n>>), Visits)
        IN  [x \in 1..Len(visited) |-> Make(visited[x])]

\* a fault: range(N - 2), the last pair of beads left unconnected
Term4SkipsLastPair(seq) ==
    LET n == Len(seq)
        l == LatticeSize(n)
        vs == Variables(n, l)
        Visits(t) ==
            /\ t[1] < n - 2
            /\ (t[2] + t[3]) % 2 = t[1] % 2
            /\ Abs(t[2] - t[4]) + Abs(t[3] - t[5]) = 1
            /\ (t[4] + t[5]) % 2 = (t[1] + 1) % 2
        Make(t) == Contribution(4, vs[<<t[1], t[2], t[3]>>], vs[<<t[1] + 1, t[4], t[5]>>], -3)
    IN  LET visited == SelectSeq(LoopNest(<<n, l, l, l, l>>), Visits)
        IN  [x \in 1..Len(visited) |-> Make(visited[x])]

\* main.py 88-99: connectivity of consecutive beads
Term4(seq) ==
    LET n == Len(seq)
        l == LatticeSize(n)
        vs == Variables(n, l)
        \* t = <<i, j, k, jp, kp>>
        Visits(t) ==
            /\ t[1] < n - 1
            /\ (t[2] + t[3]) % 2 = t[1] % 2
            /\ Abs(t[2] - t[4]) + Abs(t[3] - t[5]) = 1
            /\ (t[4] + t[5]) % 2 = (t[1] + 1) % 2
        Make(t) == Contribution(4, vs[<<t[1], t[2], t[3]>>], vs[<<t[1] + 1, t[4], t[5]>>], -3)
    IN  LET visited == SelectSeq(LoopNest(<<n, l, l, l, l>>), Visits)
        IN  [x \in 1..Len(visited) |-> Make(visited[x])]

(***************************************************************************)
(* Accumulation into the dictionary Q (a function whose DOMAIN is the set  *)
(* of keys present).  log is a history variable: for each key, the         *)
(* contributions <<term, coefficient>> made to it so far.                  *)
(***************************************************************************)
\* d.get(key, default)
Get(d, key, default) == IF key \in DOMAIN d THEN d[key] ELSE default

\* d[key] = value
SetItem(d, key, value) ==
    IF key \in DOMAIN d THEN [d EXCEPT ![key] = value] ELSE d @@ (key :> value)

\* main.py 65-68: if pair in Q: Q[pair] += c else: Q[pair] = c
AddOrSet(q, pair, c) ==
    IF pair \in DOMAIN q THEN SetItem(q, pair, q[pair] + c) ELSE SetItem(q, pair, c)

\* a fault: the coefficient not added, Q[key] = Q.get(key, 0)
GetAddForgetsCoefficient(q, key, c) == SetItem(q, key, Get(q, key, 0))

\* main.py 77, 86, 99: Q[key] = Q.get(key, 0) + c
GetAdd(q, key, c) == SetItem(q, key, Get(q, key, 0) + c)

Accumulate(q, c) ==
    IF c.term = 1 THEN AddOrSet(q, c.key, c.val) ELSE GetAdd(q, c.key, c.val)

Record(lg, c) == SetItem(lg, c.key, Append(Get(lg, c.key, <<>>), <<c.term, c.val>>))

Apply(st, c) == [Q |-> Accumulate(st.Q, c), log |-> Record(st.log, c)]

\* st = [Q, log]; the contributions cs[lo], ..., cs[hi] applied in this order.
\* The range is halved, and the state after the first half is bound as a value
\* before the second half is applied, to keep the evaluation shallow.
RECURSIVE ApplyRange(_, _, _, _)
ApplyRange(st, cs, lo, hi) ==
    IF lo > hi THEN st
    ELSE IF lo = hi THEN Apply(st, cs[lo])
    ELSE LET mid == (lo + hi) \div 2
         IN  CHOOSE r \in {ApplyRange(left, cs, mid + 1, hi) :
                              left \in {ApplyRange(st, cs, lo, mid)}} : TRUE

ApplyAll(st, cs) == ApplyRange(st, cs, 1, Len(cs))

\* {}
Empty == <<>>

\* the whole construction, main.py 52-99
BuildQ(seq) ==
    ApplyAll(ApplyAll(ApplyAll(ApplyAll([Q |-> Empty, log |-> Empty],
        Term1(seq)), Term2(seq)), Term3(seq)), Term4(seq))

(***************************************************************************)
(* The script, term by term.                                               *)
(***************************************************************************)
Start(seq) ==
    /\ sequence = seq
    /\ N = Len(seq)
    /\ L = LatticeSize(Len(seq))
    /\ variables = Variables(Len(seq), LatticeSize(Len(seq)))

Init ==
    /\ \E seq \in Sequences(MaxN) : Start(seq)
    /\ Q = Empty
    /\ log = Empty
    /\ pc = "hp"
    /\ contribs = <<>>
    /\ pending = {}
    /\ sample = <<>>
    /\ positions = Empty

Step(cs, next) ==
    LET st == ApplyAll([Q |-> Q, log |-> log], cs)
    IN  /\ Q' = st.Q
        /\ log' = st.log
        /\ pc' = next
        /\ UNCHANGED <<sequence, N, L, variables, contribs, pending, sample, positions>>

AddHPEnergy == pc = "hp" /\ Step(Term1(sequence), "one_site")

AddOneSite == pc = "one_site" /\ Step(Term2(sequence), "avoid")

AddSelfAvoidance == pc = "avoid" /\ Step(Term3(sequence), "connect")

AddConnectivity == pc = "connect" /\ Step(Term4(sequence), "built")

Next == AddHPEnergy \/ AddOneSite \/ AddSelfAvoidance \/ AddConnectivity

Spec == Init /\ [][Next]_vars

(***************************************************************************)
(* The same contributions applied in another order: the four terms are     *)
(* applied in any order, and the contributions of a term forwards,         *)
(* backwards, or every second one first.  contribs holds the contributions *)
(* of the four loops, pending the terms not yet applied.                   *)
(***************************************************************************)
Reverse(s) == [x \in 1..Len(s) |-> s[Len(s) + 1 - x]]

\* s[2], s[4], ... and then s[1], s[3], ...
EverySecondFirst(s) ==
    LET half == Len(s) \div 2
    IN  [x \in 1..Len(s) |-> IF x <= half THEN s[2 * x] ELSE s[2 * (x - half) - 1]]

Orders(s) == {s, Reverse(s), EverySecondFirst(s)}

InitAnyOrder ==
    /\ \E seq \in Sequences(MaxN) :
          /\ Start(seq)
          /\ contribs = <<Term1(seq), Term2(seq), Term3(seq), Term4(seq)>>
    /\ Q = Empty
    /\ log = Empty
    /\ pc = "any_order"
    /\ pending = 1..4
    /\ sample = <<>>
    /\ positions = Empty

ApplyTerm(t) ==
    /\ pc = "any_order"
    /\ t \in pending
    /\ \E cs \in Orders(contribs[t]) :
          LET st == ApplyAll([Q |-> Q, log |-> log], cs)
          IN  /\ Q' = st.Q
              /\ log' = st.log
    /\ pending' = pending \ {t}
    /\ pc' = IF pending' = {} THEN "built" ELSE "any_order"
    /\ UNCHANGED <<sequence, N, L, variables, contribs, sample, positions>>

SomeHPEnergy == ApplyTerm(1)

SomeOneSite == ApplyTerm(2)

SomeSelfAvoidance == ApplyTerm(3)

SomeConnectivity == ApplyTerm(4)

NextAnyOrder == SomeHPEnergy \/ SomeOneSite \/ SomeSelfAvoidance \/ SomeConnectivity

SpecAnyOrder == InitAnyOrder /\ [][NextAnyOrder]_vars

(***************************************************************************)
(* The sampler (an external service) and the decoding of its sample.       *)
(* A sample is a dictionary variable name -> 0/1 over the variables of Q;  *)
(* it is modelled as the sequence of its items in iteration order, which   *)
(* is the sampler's choice.                                                *)
(***************************************************************************)
\* the variables the model handed to the sampler has: those in a key of Q
NamesOf(q) == {key[1] : key \in DOMAIN q} \cup {key[2] : key \in DOMAIN q}

\* the dictionaries over the names S, in every iteration order
Samples(S) ==
    {s \in [1..Cardinality(S) -> S \X {0, 1}] :
        \A x, y \in 1..Cardinality(S) : s[x][1] = s[y][1] => x = y}

\* main.py 107-112: any assignment may come back as the lowest-energy sample
Sample ==
    /\ pc = "built"
    /\ sample' \in Samples(NamesOf(Q))
    /\ pc' = "sampled"
    /\ UNCHANGED <<sequence, N, L, variables, Q, log, contribs, pending, positions>>

\* a fault: the first variable of a bead kept, positions.setdefault(i, (j, k))
DecodeItemFirstWins(pos, item) ==
    IF item[2] = 1
    THEN LET parts == Split(item[1], "_")
             i == StrToInt(parts[2])
             j == StrToInt(parts[3])
             k == StrToInt(parts[4])
         IN  IF i \in DOMAIN pos THEN pos ELSE SetItem(pos, i, <<j, k>>)
    ELSE pos

\* main.py 117-123: the body of the decoding loop for one item
DecodeItem(pos, item) ==
    IF item[2] = 1
    THEN LET parts == Split(item[1], "_")
             i == StrToInt(parts[2])
             j == StrToInt(parts[3])
             k == StrToInt(parts[4])
         IN  SetItem(pos, i, <<j, k>>)
    ELSE pos

\* main.py 115-123
RECURSIVE DecodeFrom(_, _, _)
DecodeFrom(pos, items, from) ==
    IF from > Len(items) THEN pos
    ELSE DecodeFrom(DecodeItem(pos, items[from]), items, from + 1)

Decode ==
    /\ pc = "sampled"
    /\ positions' = DecodeFrom(Empty, sample, 1)
    /\ pc' = "decoded"
    /\ UNCHANGED <<sequence, N, L, variables, Q, log, contribs, pending, sample>>

Built(seq) ==
    /\ Start(seq)
    /\ Q = BuildQ(seq).Q
    /\ log = BuildQ(seq).log
    /\ contribs = <<>>
    /\ pending = {}

\* the script after line 99, for every sequence
InitSample ==
    /\ \E seq \in Sequences(MaxNSample) : Built(seq)
    /\ pc = "built"
    /\ sample = <<>>
    /\ positions = Empty

NextSample == Sample \/ Decode

SpecSample == InitSample /\ [][NextSample]_vars

\* the script after line 112, for the first characters of its own sequence
InitDecode ==
    /\ \E n \in 2..MaxNDecode : Built(SubSeq(DefaultSequence, 1, n))
    /\ pc = "sampled"
    /\ sample \in Samples(NamesOf(Q))
    /\ positions = Empty

NextDecode == Decode

SpecDecode == InitDecode /\ [][NextDecode]_vars

(***************************************************************************)
(* Vocabulary of the properties.                                           *)
(***************************************************************************)
Names == {variables[t] : t \in DOMAIN variables}

\* the (bead, row, column) a variable name was made for
TripleOf(name) == CHOOSE t \in DOMAIN variables : variables[t] = name

Distance(ta, tb) == Abs(ta[2] - tb[2]) + Abs(ta[3] - tb[3])

RECURSIVE SumSeq(_)
SumSeq(s) == IF Len(s) = 0 THEN 0 ELSE s[1] + SumSeq(Tail(s))

\* the coefficients term t has contributed to key so far, in order
TermVals(t, key) ==
    IF key \in DOMAIN log
    THEN LET OfTerm(e) == e[1] = t
             es == SelectSeq(log[key], OfTerm)
         IN  [x \in 1..Len(es) |-> es[x][2]]
    ELSE <<>>

AllVals(key) == [x \in 1..Len(log[key]) |-> log[key][x][2]]

Applied(t) ==
    \/ pc \in {"built", "sampled", "decoded"}
    \/ pc = "any_order" /\ t \notin pending
    \/ t = 1 /\ pc \in {"one_site", "avoid", "connect"}
    \/ t = 2 /\ pc \in {"avoid", "connect"}
    \/ t = 3 /\ pc = "connect"

\* the value of a sample for a variable name
ValueOf(s, name) == LET p == CHOOSE x \in 1..Len(s) : s[x][1] = name IN s[p][2]

\* the energy of an assignment a (name -> 0/1): the sum of the coefficients of
\* the keys of q whose two variables are both 1
RECURSIVE SumOver(_, _)
SumOver(q, keys) ==
    IF keys = {} THEN 0
    ELSE LET key == CHOOSE x \in keys : TRUE
         IN  q[key] + SumOver(q, keys \ {key})

Energy(q, a) == SumOver(q, {key \in DOMAIN q : a[key[1]] = 1 /\ a[key[2]] = 1})

Assignment(s) == [name \in {s[x][1] : x \in 1..Len(s)} |-> ValueOf(s, name)]

MinimalEnergy(q, a) == \A b \in [DOMAIN a -> {0, 1}] : Energy(q, a) <= Energy(q, b)

(***************************************************************************)
(* C1.  Accumulation never loses a term: in whatever order the terms and   *)
(* their contributions are applied, the coefficient stored for each key is *)
(* the sum of all contributions made to that key so far, every             *)
(* contribution of every applied term has been made, and the final mapping *)
(* is the one the script's own order yields.                               *)
(***************************************************************************)
C1_NoTermLost ==
    /\ DOMAIN Q = DOMAIN log
    /\ \A key \in DOMAIN log : Q[key] = SumSeq(AllVals(key))
    /\ \A t \in (1..4) \ pending :
          \A x \in 1..Len(contribs[t]) :
             /\ contribs[t][x].key \in DOMAIN log
             /\ \E y \in 1..Len(log[contribs[t][x].key]) :
                   log[contribs[t][x].key][y] = <<t, contribs[t][x].val>>
    /\ pc = "built" => Q = BuildQ(sequence).Q

\* connectivity was applied before the one-site term, which is still to come
C1_Witness ==
    /\ pc = "any_order"
    /\ 4 \notin pending
    /\ 2 \in pending
    /\ \E key \in DOMAIN Q : Q[key] = -3

(***************************************************************************)
(* C2.  As claimed: the built mapping is symmetric under pair order, a     *)
(* missing key counting as 0.                                              *)
(***************************************************************************)
C2_Symmetric ==
    pc = "built" =>
        \A a, b \in Names : Get(Q, <<a, b>>, 0) = Get(Q, <<b, a>>, 0)

(***************************************************************************)
(* C2, amended.  The built mapping is symmetric under pair order for two   *)
(* variables of the same bead (both keys are present, with the same        *)
(* coefficient); for two variables of different beads Q holds only the key *)
(* whose first variable is the one of the lower bead index.                *)
(***************************************************************************)
C2_SymmetricWithinBead ==
    pc = "built" =>
        \A key \in DOMAIN Q :
            LET ta == TripleOf(key[1])
                tb == TripleOf(key[2])
                back == <<key[2], key[1]>>
            IN  IF ta[1] = tb[1]
                THEN back \in DOMAIN Q /\ Q[back] = Q[key]
                ELSE ta[1] < tb[1] /\ back \notin DOMAIN Q

C2_Witness ==
    /\ pc = "built"
    /\ \E key \in DOMAIN Q : TripleOf(key[1])[1] = TripleOf(key[2])[1]
    /\ \E key \in DOMAIN Q : TripleOf(key[1])[1] < TripleOf(key[2])[1]

(***************************************************************************)
(* C3.  As claimed: in every assignment that minimises the energy of the   *)
(* built QUBO, each bead has at most one of its variables set to 1.        *)
(***************************************************************************)
C3_MinimalPlacesBeadOnce ==
    (pc = "sampled" /\ MinimalEnergy(Q, Assignment(sample))) =>
        \A i \in Range(N) :
            Cardinality({name \in Names :
                TripleOf(name)[1] = i /\ Assignment(sample)[name] = 1}) <= 1

(***************************************************************************)
(* C4.  Term 1 contributes -1, once, to the key (var(f,j,k),               *)
(* var(fp,jp,kp)) exactly when both residues are 'H', fp >= f+2, the       *)
(* coordinates are at Manhattan distance 1 and each fits its bead's        *)
(* parity; it contributes to no other key.  With no two 'H' at positions   *)
(* fp >= f+2 it contributes nothing.                                       *)
(***************************************************************************)
C4_Term1 ==
    Applied(1) =>
        /\ \A key \in DOMAIN log : key[1] \in Names /\ key[2] \in Names
        /\ \A ta, tb \in DOMAIN variables :
              TermVals(1, <<variables[ta], variables[tb]>>) =
                 IF /\ CharAt(sequence, ta[1]) = "H"
                    /\ CharAt(sequence, tb[1]) = "H"
                    /\ tb[1] >= ta[1] + 2
                    /\ Distance(ta, tb) = 1
                 THEN <<-1>> ELSE <<>>
        /\ (\A f, fp \in Range(N) :
               ~(CharAt(sequence, f) = "H" /\ CharAt(sequence, fp) = "H" /\ fp >= f + 2))
              => \A key \in DOMAIN log : TermVals(1, key) = <<>>

\* two 'H' three apart: the term has fired
C4_Witness ==
    /\ pc = "built"
    /\ \E key \in DOMAIN log : TermVals(1, key) = <<-1>>
    /\ \E key \in DOMAIN log : TermVals(1, key) = <<>>

(***************************************************************************)
(* C5.  Term 4 contributes -3, once, to the key (var(i,j,k),               *)
(* var(i+1,jp,kp)) for every consecutive bead pair and every two           *)
(* coordinates at Manhattan distance 1, the first valid for bead i (the    *)
(* second is then valid for bead i+1); it contributes to no other key.     *)
(***************************************************************************)
C5_Term4 ==
    Applied(4) =>
        /\ \A ta, tb \in DOMAIN variables :
              TermVals(4, <<variables[ta], variables[tb]>>) =
                 IF tb[1] = ta[1] + 1 /\ Distance(ta, tb) = 1 THEN <<-3>> ELSE <<>>
        /\ \A key \in DOMAIN log :
              TermVals(4, key) # <<>> => key[1] \in Names /\ key[2] \in Names
        /\ \A ta \in DOMAIN variables : \A jp, kp \in Range(L) :
              (ta[1] + 1 < N /\ Distance(ta, <<ta[1] + 1, jp, kp>>) = 1)
                 => <<ta[1] + 1, jp, kp>> \in DOMAIN variables

C5_Witness ==
    /\ pc = "built"
    /\ N = 2
    /\ L = 2
    /\ Cardinality({key \in DOMAIN log : TermVals(4, key) = <<-3>>}) = 4

(***************************************************************************)
(* C6.  Term 3 contributes +10, once, to every pair of variables of two    *)
(* different beads over the same coordinate (on the key that names the     *)
(* lower bead first), and to no pair of variables over different           *)
(* coordinates or of the same bead.                                        *)
(***************************************************************************)
C6_Term3 ==
    Applied(3) =>
        /\ \A ta, tb \in DOMAIN variables :
              TermVals(3, <<variables[ta], variables[tb]>>) =
                 IF ta[1] < tb[1] /\ ta[2] = tb[2] /\ ta[3] = tb[3] THEN <<10>> ELSE <<>>
        /\ \A key \in DOMAIN log :
              TermVals(3, key) # <<>> => key[1] \in Names /\ key[2] \in Names

C6_Witness ==
    /\ pc = "built"
    /\ \E key \in DOMAIN log : TermVals(3, key) = <<10>>

(***************************************************************************)
(* C7.  As claimed: for every bead and every two distinct coordinates      *)
(* valid for it, Term 2 adds +2 to the unordered pair of their variables,  *)
(* both key orders counted together.                                       *)
(***************************************************************************)
C7_Term2AddsTwoPerPair ==
    pc = "built" =>
        \A ta, tb \in DOMAIN variables :
            (ta[1] = tb[1] /\ ta # tb) =>
                SumSeq(TermVals(2, <<variables[ta], variables[tb]>>))
                  + SumSeq(TermVals(2, <<variables[tb], variables[ta]>>)) = 2

(***************************************************************************)
(* C8.  The built mapping depends on the sequence only through the         *)
(* positions that hold 'H': Q is the mapping built for the sequence with   *)
(* 'P' at every other position, and the one built for the sequence with a *)
(* character outside {H,P} at every other position.  As this holds of      *)
(* every sequence, any two sequences of the same length with the same 'H'  *)
(* positions build the same Q.  Every sequence of length 2 builds the same *)
(* Q.                                                                      *)
(***************************************************************************)
RECURSIVE Elsewhere(_, _)
Elsewhere(seq, r) ==
    IF Len(seq) = 0 THEN ""
    ELSE Elsewhere(SubSeq(seq, 1, Len(seq) - 1), r)
            \o (IF CharAt(seq, Len(seq) - 1) = "H" THEN "H" ELSE r)

C8_OnlyHPositionsMatter ==
    pc = "built" =>
        /\ BuildQ(Elsewhere(sequence, "P")).Q = Q
        /\ BuildQ(Elsewhere(sequence, "X")).Q = Q
        /\ N = 2 => \A other \in SequencesOfLen(2) : BuildQ(other).Q = Q

\* a sequence with a character outside {H,P} for which Term 1 has fired
C8_Witness ==
    /\ pc = "built"
    /\ \E f \in Range(N) : CharAt(sequence, f) = "X"
    /\ \E key \in DOMAIN log : TermVals(1, key) # <<>>

(***************************************************************************)
(* C9.  Decoding yields a positions entry for bead i if and only if some   *)
(* variable of bead i has value 1 in the sample, and the entry is the      *)
(* coordinate of the last such variable in iteration order; with exactly   *)
(* one variable set per bead, it is the coordinate in that variable's      *)
(* name.                                                                   *)
(***************************************************************************)
C9_DecodeLastWins ==
    pc = "decoded" =>
        /\ DOMAIN positions \subseteq Range(N)
        /\ \A i \in Range(N) :
              LET ones == {x \in 1..Len(sample) :
                             sample[x][2] = 1 /\ TripleOf(sample[x][1])[1] = i}
                  last == CHOOSE x \in ones : \A y \in ones : y <= x
              IN  /\ i \in DOMAIN positions <=> ones # {}
                  /\ ones # {} =>
                        positions[i] = <<TripleOf(sample[last][1])[2],
                                         TripleOf(sample[last][1])[3]>>

\* one bead with exactly one variable set, another with two set, the one at
\* the larger row coming first in iteration order
C9_Witness ==
    /\ pc = "decoded"
    /\ \E x \in 1..Len(sample) :
          /\ sample[x][2] = 1
          /\ \A y \in 1..Len(sample) :
                (y # x /\ TripleOf(sample[y][1])[1] = TripleOf(sample[x][1])[1])
                   => sample[y][2] = 0
    /\ \E x, y \in 1..Len(sample) :
          /\ x < y
          /\ sample[x][2] = 1 /\ sample[y][2] = 1
          /\ TripleOf(sample[x][1])[1] = TripleOf(sample[y][1])[1]
          /\ TripleOf(sample[x][1])[2] > TripleOf(sample[y][1])[2]

(***************************************************************************)
(* C10.  Every key of Q is an ordered pair of two different variables that *)
(* has received exactly one contribution, so every stored coefficient is   *)
(* the one of a single term: -1, +2, +10 or -3; Q has no self-pair key,    *)
(* and the all-zero assignment costs 0.                                    *)
(***************************************************************************)
C10_OneContributionPerKey ==
    /\ \A key \in DOMAIN Q :
          /\ key[1] \in Names /\ key[2] \in Names
          /\ key[1] # key[2]
          /\ Len(log[key]) = 1
          /\ <<log[key][1][1], Q[key]>> \in {<<1, -1>>, <<2, 2>>, <<3, 10>>, <<4, -3>>}
    /\ pc = "built" => Energy(Q, [name \in Names |-> 0]) = 0

\* all four coefficients are present in the built mapping
C10_Witness ==
    /\ pc = "built"
    /\ \A c \in {-1, 2, 10, -3} : \E key \in DOMAIN Q : Q[key] = c

====
